---- MODULE Spec2Model ----
(***************************************************************************)
(* A model of src/client.py: the LocalAI streaming client.                 *)
(*                                                                         *)
(*   LLMClient.__init__              the client's two fields               *)
(*   LLMClient.list_models           GET {api_base}/models                 *)
(*   LLMClient._format_phi_messages  the prompt formatter (pure)           *)
(*   LLMClient.chat_stream           the generator: POST, status check,    *)
(*                                   the per-line loop, the yields         *)
(*                                                                         *)
(* Text is modelled by TLA+ strings (concatenation, prefix test and        *)
(* slicing are computed on the characters).  Decoded JSON is modelled by   *)
(* tagged values, and json.loads by its graph on the payloads the modelled *)
(* server can send.  Time is an integer number of clock ticks.             *)
(***************************************************************************)
EXTENDS Integers, Sequences, FiniteSets, TLC

VARIABLES
    api_base,      \* self.api_base
    headers,       \* self.headers
    pc,            \* per call: position of the generator
    messages,      \* per call: the messages argument
    request,       \* per call: the POSTs issued (url, headers, json body)
    response,      \* per call: the server's answer (status_code, text, lines)
    conn,          \* per call: the HTTP connection of the response
    pos,           \* per call: number of lines iter_lines() has handed over
    events,        \* per call: the (content, current_time) pairs yielded
    error,         \* per call: the exception that reached the consumer
    start_time,    \* per call: the local start_time
    clock,         \* the system wall clock read by time.time()
    clockSetBack,  \* history: the wall clock has been set back
    modelsLog,     \* outcomes of the list_models calls made so far
    fmtMessages,   \* the formatter's argument (formatter specification)
    fmtResult      \* the formatter's outcome  (formatter specification)

vars == << api_base, headers, pc, messages, request, response, conn, pos,
           events, error, start_time, clock, clockSetBack, modelsLog,
           fmtMessages, fmtResult >>

(***************************************************************************)
(* Bounds of the model.                                                    *)
(***************************************************************************)
MaxMsgs == 3         \* longest message list given to the formatter
MaxLines == 2        \* longest enumerated response (single call)
MaxClockLines == 2   \* longest response in the timing specification
MaxConcLines == 1    \* longest response in the concurrent specification
NumCalls == 2        \* concurrent chat_stream calls on one client
MaxClock == 3        \* largest wall-clock reading
MaxGets == 2         \* list_models calls

Calls == 1 .. NumCalls

(***************************************************************************)
(* Text helpers (Python str methods used by the code).                     *)
(***************************************************************************)
\* str.startswith(prefix)
startswith(s, prefix) ==
    /\ Len(s) >= Len(prefix)
    /\ SubSeq(s, 1, Len(prefix)) = prefix

\* s[n:]
slice_from(s, n) == IF n >= Len(s) THEN "" ELSE SubSeq(s, n + 1, Len(s))

\* needle in s
Contains(s, needle) ==
    \E i \in 0 .. (Len(s) - Len(needle)) :
        SubSeq(s, i + 1, i + Len(needle)) = needle

(***************************************************************************)
(* Decoded JSON: tagged values.  None is Python's None (JSON null).        *)
(***************************************************************************)
None == [t |-> "null"]
JNum(n) == [t |-> "num", n |-> n]
JStr(s) == [t |-> "str", s |-> s]
JList(items) == [t |-> "list", items |-> items]
JDict(fields) == [t |-> "dict", fields |-> fields]
EmptyDict == JDict(<< >>)

\* A completion chunk {"choices":[{"text": text}]}
ChunkOf(text) == JDict([choices |-> JList(<< JDict([text |-> JStr(text)]) >>)])

Decoded(v) == [ok |-> TRUE, value |-> v]
JSONDecodeError == [ok |-> FALSE]

\* json.loads, on the payloads the modelled servers send; any other text of
\* the model (among them [DONE] behind a second prefix, and an SSE comment)
\* is not JSON.
json_loads(s) ==
    CASE s = "{\"choices\":[{\"text\":\"Hello\"}]}" -> Decoded(ChunkOf("Hello"))
      [] s = "{\"choices\":[{\"text\":\" \"}]}" -> Decoded(ChunkOf(" "))
      [] s = "{\"choices\":[{\"text\":\"world\"}]}" -> Decoded(ChunkOf("world"))
      [] s = "{\"choices\":[{\"text\":\"hi\"}]}" -> Decoded(ChunkOf("hi"))
      [] s = "{\"choices\":[{\"text\":\"\"}]}" -> Decoded(ChunkOf(""))
      [] s = "{\"choices\":[{\"index\":0}]}" ->
             Decoded(JDict([choices |-> JList(<< JDict([index |-> JNum(0)]) >>)]))
      [] s = "{\"choices\":[{}]}" ->
             Decoded(JDict([choices |-> JList(<< EmptyDict >>)]))
      [] s = "{\"choices\":[]}" -> Decoded(JDict([choices |-> JList(<< >>)]))
      [] s = "{\"choices\":[1]}" ->
             Decoded(JDict([choices |-> JList(<< JNum(1) >>)]))
      [] s = "{\"choices\":{\"a\":1}}" ->
             Decoded(JDict([choices |-> JDict([a |-> JNum(1)])]))
      [] s = "{\"choices\":\"ab\"}" -> Decoded(JDict([choices |-> JStr("ab")]))
      [] s = "{\"choices\":7}" -> Decoded(JDict([choices |-> JNum(7)]))
      [] s = "{\"id\":\"x\"}" -> Decoded(JDict([id |-> JStr("x")]))
      [] s = "{}" -> Decoded(EmptyDict)
      [] s = "42" -> Decoded(JNum(42))
      [] s = "\"text\"" -> Decoded(JStr("text"))
      [] s = "[1]" -> Decoded(JList(<< JNum(1) >>))
      [] s = "null" -> Decoded(None)
      [] s = "{\"data\":[{\"id\":\"phi-3.5-mini-instruct\"}]}" ->
             Decoded(JDict([data |->
                 JList(<< JDict([id |-> JStr("phi-3.5-mini-instruct")]) >>)]))
      [] s = "{\"error\":\"not found\"}" ->
             Decoded(JDict([error |-> JStr("not found")]))
      [] OTHER -> JSONDecodeError

\* Python truth value of a decoded value (the tests of the two `if`s)
Truthy(v) ==
    CASE v.t = "null" -> FALSE
      [] v.t = "num" -> v.n # 0
      [] v.t = "str" -> v.s # ""
      [] v.t = "list" -> Len(v.items) > 0
      [] v.t = "dict" -> DOMAIN v.fields # {}

\* Outcomes of evaluating an expression: a value, or an exception raised
Val(v) == [raised |-> FALSE, value |-> v]
Raise(exc) == [raised |-> TRUE, exc |-> exc]

\* x.get(key): only a dict has .get
py_get(x, key) ==
    IF x.t # "dict" THEN Raise("AttributeError")
    ELSE IF key \in DOMAIN x.fields THEN Val(x.fields[key]) ELSE Val(None)

\* x[0]
py_first(x) ==
    CASE x.t = "list" ->
             IF Len(x.items) > 0 THEN Val(x.items[1]) ELSE Raise("IndexError")
      [] x.t = "str" ->
             IF Len(x.s) > 0 THEN Val(JStr(SubSeq(x.s, 1, 1)))
             ELSE Raise("IndexError")
      [] x.t = "dict" -> Raise("KeyError")
      [] OTHER -> Raise("TypeError")

(***************************************************************************)
(* The body of the loop of chat_stream for one line handed over by         *)
(* iter_lines(): what the iteration does with it.                          *)
(*   [kind |-> "skip"]                  nothing yielded, loop goes on      *)
(*   [kind |-> "yield", content |-> v]  an event with that content         *)
(*   [kind |-> "raise", exc |-> e]      exception e leaves the generator   *)
(***************************************************************************)
Skip == [kind |-> "skip"]
Yield(content) == [kind |-> "yield", content |-> content]
Throw(exc) == [kind |-> "raise", exc |-> exc]

\* lines 72-73
strip_data_prefix(line) ==
    IF startswith(line, "data: ") THEN slice_from(line, 6) ELSE line

\* lines 80-85: the body of the try, for a decoded chunk
handle_chunk(chunk) ==
    LET choices == py_get(chunk, "choices") IN
    IF choices.raised THEN Throw(choices.exc)
    ELSE IF ~Truthy(choices.value) THEN Skip
    ELSE LET first == py_first(choices.value) IN
         IF first.raised THEN Throw(first.exc)
         ELSE LET text == py_get(first.value, "text") IN
              IF text.raised THEN Throw(text.exc)
              ELSE IF Truthy(text.value) THEN Yield(text.value)
              ELSE Skip

\* lines 78-87: try / except json.JSONDecodeError
try_decode(payload) ==
    LET r == json_loads(payload) IN
    IF ~r.ok THEN Skip ELSE handle_chunk(r.value)

\* a variant that ends the generator at [DONE] (return instead of continue)
process_line_done_returns(line) ==
    IF line = "" THEN Skip
    ELSE LET payload == strip_data_prefix(line) IN
         IF payload = "[DONE]" THEN Throw("StopIteration")
         ELSE try_decode(payload)

\* lines 70-87
process_line(line) ==
    IF line = "" THEN Skip
    ELSE LET payload == strip_data_prefix(line) IN
         IF payload = "[DONE]" THEN Skip
         ELSE try_decode(payload)

(***************************************************************************)
(* The prompt formatter.  A message is [role |-> .., content |-> ..].      *)
(***************************************************************************)
\* a variant that takes the last system message
last_system(msgs) ==
    LET systems == SelectSeq(msgs, LAMBDA m : m.role = "system") IN
    IF Len(systems) > 0 THEN systems[Len(systems)] ELSE None

\* next((msg for msg in messages if msg["role"] == "system"), None)
first_system(msgs) ==
    LET systems == SelectSeq(msgs, LAMBDA m : m.role = "system") IN
    IF Len(systems) > 0 THEN systems[1] ELSE None

\* a variant that keeps the user messages in reverse order (so that the
\* formatter's [-1] takes the first one)
user_msgs_reversed(msgs) ==
    LET users == SelectSeq(msgs, LAMBDA m : m.role = "user") IN
    [i \in 1 .. Len(users) |-> users[Len(users) + 1 - i]]

\* [msg for msg in messages if msg["role"] == "user"]
user_msgs(msgs) == SelectSeq(msgs, LAMBDA m : m.role = "user")

_format_phi_messages(msgs) ==
    LET system_msg == first_system(msgs)
        users == user_msgs(msgs)
        part1 == IF system_msg # None
                 THEN "<|system|>" \o system_msg.content \o "<|end|>"
                 ELSE ""
        part2 == IF Len(users) > 0
                 THEN "<|user|>" \o users[Len(users)].content
                          \o "<|end|><|assistant|>"
                 ELSE ""
    IN  part1 \o part2

(***************************************************************************)
(* The inputs: message lists, and what the server may answer.              *)
(***************************************************************************)
BoundedSeq(S, n) == UNION { [1 .. k -> S] : k \in 0 .. n }

Msg(role, content) == [role |-> role, content |-> content]
Roles == {"system", "user", "assistant"}
Contents == {"", "A", "B"}
Messages == { Msg(r, t) : r \in Roles, t \in Contents }
FormatterInputs == BoundedSeq(Messages, MaxMsgs)

\* The message lists given to chat_stream (the demo's, and one with a
\* system message)
DemoMessages == << Msg("user", "Explain what AI is in two sentences.") >>
StreamMessageLists ==
    { DemoMessages, << Msg("system", "S"), Msg("user", "U") >> }

\* Lines as iter_lines() hands them over (decoded)
HelloLine == "data: {\"choices\":[{\"text\":\"Hello\"}]}"
SpaceLine == "data: {\"choices\":[{\"text\":\" \"}]}"
WorldLine == "data: {\"choices\":[{\"text\":\"world\"}]}"
HiLine == "data: {\"choices\":[{\"text\":\"hi\"}]}"
DoneLine == "data: [DONE]"
StreamLines ==
    { HiLine,
      "{\"choices\":[{\"text\":\"world\"}]}",
      DoneLine,
      "[DONE]",
      "",
      "data: data: [DONE]",
      "data: {\"choices\":[{\"te",
      ": keep-alive",
      "data: 42",
      "data: \"text\"",
      "data: [1]",
      "data: null",
      "data: {}",
      "data: {\"id\":\"x\"}",
      "data: {\"choices\":[]}",
      "data: {\"choices\":[{}]}",
      "data: {\"choices\":[{\"index\":0}]}",
      "data: {\"choices\":[{\"text\":\"\"}]}",
      "data: {\"choices\":[1]}",
      "data: {\"choices\":{\"a\":1}}" }
ClockLines == { HiLine, WorldLine, DoneLine }
ConcLines == { HiLine, WorldLine }

OkResponse(ls) == [status_code |-> 200, text |-> "", lines |-> ls]
ErrResponse(code, body) == [status_code |-> code, text |-> body, lines |-> << >>]
NoResponse == [status_code |-> 0, text |-> "", lines |-> << >>]
ErrorBodies == {"model not found", "{\"error\":\"not found\"}", ""}
ErrResponses ==
    { ErrResponse(code, body) : code \in {404, 500}, body \in ErrorBodies }
HelloWorldResponse ==
    OkResponse(<< HelloLine, SpaceLine, WorldLine, DoneLine >>)

StreamAnswers ==
    { OkResponse(ls) : ls \in BoundedSeq(StreamLines, MaxLines) }
        \cup {HelloWorldResponse} \cup ErrResponses
ClockAnswers ==
    { OkResponse(ls) : ls \in BoundedSeq(ClockLines, MaxClockLines) }
        \cup { ErrResponse(500, "model not found") }
ConcAnswers ==
    { OkResponse(ls) : ls \in BoundedSeq(ConcLines, MaxConcLines) }
        \cup { ErrResponse(500, "model not found") }

ModelBodies ==
    { "{\"data\":[{\"id\":\"phi-3.5-mini-instruct\"}]}",
      "{\"error\":\"not found\"}", "[1]", "<html>Bad Gateway</html>", "" }
ModelAnswers ==
    { [status_code |-> code, text |-> body] :
          code \in {200, 404, 500}, body \in ModelBodies }

ConcModelAnswers ==
    { [status_code |-> 200, text |-> "{\"data\":[{\"id\":\"phi-3.5-mini-instruct\"}]}"],
      [status_code |-> 404, text |-> "{\"error\":\"not found\"}"] }

NoError == [type |-> "none", message |-> ""]
NotRun == [kind |-> "none"]

(***************************************************************************)
(* Init: the state after LLMClient(api_base) (lines 11-13); no call made.  *)
(***************************************************************************)
InitClient ==
    /\ api_base = "http://localhost:8080/v1"
    /\ headers = [Content_Type |-> "application/json"]
    /\ pc = [c \in Calls |-> "idle"]
    /\ messages = [c \in Calls |-> << >>]
    /\ request = [c \in Calls |-> << >>]
    /\ response = [c \in Calls |-> NoResponse]
    /\ conn = [c \in Calls |-> "none"]
    /\ pos = [c \in Calls |-> 0]
    /\ events = [c \in Calls |-> << >>]
    /\ error = [c \in Calls |-> NoError]
    /\ start_time = [c \in Calls |-> 0]
    /\ clock = 0
    /\ clockSetBack = FALSE
    /\ modelsLog = << >>

Init ==
    /\ InitClient
    /\ fmtMessages = << >>
    /\ fmtResult = NotRun

clientVars == << api_base, headers >>
callVars == << pc, messages, request, response, conn, pos, events, error,
               start_time >>
clockVars == << clock, clockSetBack >>
fmtVars == << fmtMessages, fmtResult >>

(***************************************************************************)
(* chat_stream.  Calling it only creates the generator; the body runs in   *)
(* the consumer's next() calls, from one suspension to the next.           *)
(***************************************************************************)
\* llm.chat_stream(messages): the generator object is created
ChatStream(c, lists) ==
    /\ pc[c] = "idle"
    /\ \E msgs \in lists : messages' = [messages EXCEPT ![c] = msgs]
    /\ pc' = [pc EXCEPT ![c] = "created"]
    /\ UNCHANGED << clientVars, request, response, conn, pos, events, error,
                    start_time, clockVars, modelsLog, fmtVars >>

\* a variant without the with block: nothing releases the response
with_exit_leak(state) == state

\* leaving the `with` block: the response (its connection) is released
with_exit(state) == IF state = "open" THEN "closed" ELSE state

\* a variant with the operands swapped
elapsed_swapped(now, start) == start - now

\* time.time() - start_time
elapsed(now, start) == now - start

\* a variant that drops the body from the message
error_message_without_body(text) == "Error: request failed"

\* the message of the exception of line 67
error_message(text) == "Error: " \o text

\* the json body and the POST of lines 43-65
PostRequest(c) ==
    [ method |-> "POST",
      url |-> api_base \o "/completions",
      headers |-> headers,
      prompt |-> _format_phi_messages(messages[c]),
      model |-> "phi-3.5-mini-instruct",
      stream |-> TRUE ]

\* a variant that keeps the response on the client (self.response), where
\* every call reads it
PostSharedResponse(c, answers) ==
    /\ pc[c] = "created"
    /\ start_time' = [start_time EXCEPT ![c] = clock]
    /\ request' = [request EXCEPT ![c] = Append(@, PostRequest(c))]
    /\ \E r \in answers :
         /\ response' = [k \in Calls |-> r]
         /\ IF r.status_code # 200
            THEN /\ error' = [error EXCEPT ![c] =
                       [type |-> "Exception", message |-> error_message(r.text)]]
                 /\ pc' = [pc EXCEPT ![c] = "failed"]
                 /\ conn' = [conn EXCEPT ![c] = with_exit("open")]
            ELSE /\ pc' = [pc EXCEPT ![c] = "running"]
                 /\ conn' = [conn EXCEPT ![c] = "open"]
                 /\ error' = error
    /\ UNCHANGED << clientVars, messages, pos, events, clockVars, modelsLog,
                    fmtVars >>

\* first next(): lines 43-67, up to the loop
Post(c, answers) ==
    /\ pc[c] = "created"
    /\ start_time' = [start_time EXCEPT ![c] = clock]
    /\ request' = [request EXCEPT ![c] = Append(@, PostRequest(c))]
    /\ \E r \in answers :
         /\ response' = [response EXCEPT ![c] = r]
         /\ IF r.status_code # 200
            THEN /\ error' = [error EXCEPT ![c] =
                       [type |-> "Exception", message |-> error_message(r.text)]]
                 /\ pc' = [pc EXCEPT ![c] = "failed"]
                 /\ conn' = [conn EXCEPT ![c] = with_exit("open")]
            ELSE /\ pc' = [pc EXCEPT ![c] = "running"]
                 /\ conn' = [conn EXCEPT ![c] = "open"]
                 /\ error' = error
    /\ UNCHANGED << clientVars, messages, pos, events, clockVars, modelsLog,
                    fmtVars >>

\* first next(): requests.post itself raises (no server, reset): no response
PostFails(c) ==
    /\ pc[c] = "created"
    /\ start_time' = [start_time EXCEPT ![c] = clock]
    /\ request' = [request EXCEPT ![c] = Append(@, PostRequest(c))]
    /\ error' = [error EXCEPT ![c] =
                    [type |-> "ConnectionError", message |-> ""]]
    /\ pc' = [pc EXCEPT ![c] = "failed"]
    /\ UNCHANGED << clientVars, messages, response, conn, pos, events,
                    clockVars, modelsLog, fmtVars >>

\* one iteration of `for line in response.iter_lines()` (lines 69-87)
NextLine(c) ==
    /\ pc[c] = "running"
    /\ pos[c] < Len(response[c].lines)
    /\ pos' = [pos EXCEPT ![c] = @ + 1]
    /\ LET out == process_line(response[c].lines[pos[c] + 1]) IN
       CASE out.kind = "skip" ->
                UNCHANGED << pc, events, error, conn >>
         [] out.kind = "yield" ->
                /\ events' = [events EXCEPT ![c] = Append(@,
                       [content |-> out.content,
                        current_time |-> elapsed(clock, start_time[c])])]
                /\ pc' = [pc EXCEPT ![c] = "suspended"]
                /\ UNCHANGED << error, conn >>
         [] out.kind = "raise" ->
                /\ error' = [error EXCEPT ![c] =
                       [type |-> out.exc, message |-> ""]]
                /\ pc' = [pc EXCEPT ![c] = "failed"]
                /\ conn' = [conn EXCEPT ![c] = with_exit(@)]
                /\ UNCHANGED events
    /\ UNCHANGED << clientVars, messages, request, response, start_time,
                    clockVars, modelsLog, fmtVars >>

\* iter_lines() is exhausted: the loop and the with block end, StopIteration
EndOfLines(c) ==
    /\ pc[c] = "running"
    /\ pos[c] = Len(response[c].lines)
    /\ pc' = [pc EXCEPT ![c] = "exhausted"]
    /\ conn' = [conn EXCEPT ![c] = with_exit(@)]
    /\ UNCHANGED << clientVars, messages, request, response, pos, events,
                    error, start_time, clockVars, modelsLog, fmtVars >>

\* iter_lines() raises: the connection broke before the next line arrived
IterLinesFails(c) ==
    /\ pc[c] = "running"
    /\ pos[c] < Len(response[c].lines)
    /\ error' = [error EXCEPT ![c] =
                    [type |-> "ChunkedEncodingError", message |-> ""]]
    /\ pc' = [pc EXCEPT ![c] = "failed"]
    /\ conn' = [conn EXCEPT ![c] = with_exit(@)]
    /\ UNCHANGED << clientVars, messages, request, response, pos, events,
                    start_time, clockVars, modelsLog, fmtVars >>

\* the consumer asks for the next event: the generator resumes after yield
Resume(c) ==
    /\ pc[c] = "suspended"
    /\ pc' = [pc EXCEPT ![c] = "running"]
    /\ UNCHANGED << clientVars, messages, request, response, conn, pos,
                    events, error, start_time, clockVars, modelsLog, fmtVars >>

\* the consumer stops early (break, close(), or its own exception unwinding
\* the loop): the generator is finalised, GeneratorExit is raised at the
\* yield and unwinds the with block
Close(c) ==
    /\ pc[c] \in {"created", "suspended"}
    /\ pc' = [pc EXCEPT ![c] = "closed"]
    /\ conn' = [conn EXCEPT ![c] = with_exit(@)]
    /\ UNCHANGED << clientVars, messages, request, response, pos, events,
                    error, start_time, clockVars, modelsLog, fmtVars >>

(***************************************************************************)
(* The wall clock behind time.time(): it advances, and it can be set back  *)
(* (it is not a monotonic clock).                                          *)
(***************************************************************************)
Tick ==
    /\ clock < MaxClock
    /\ clock' = clock + 1
    /\ UNCHANGED << clientVars, callVars, clockSetBack, modelsLog, fmtVars >>

SetClockBack ==
    /\ clock > 0
    /\ \E t \in 0 .. (clock - 1) : clock' = t
    /\ clockSetBack' = TRUE
    /\ UNCHANGED << clientVars, callVars, modelsLog, fmtVars >>

(***************************************************************************)
(* list_models (lines 15-18)                                               *)
(***************************************************************************)
\* response.json(): the status code is not looked at
response_json(r) ==
    LET d == json_loads(r.text) IN
    IF d.ok THEN [kind |-> "return", value |-> d.value]
    ELSE [kind |-> "raise", exc |-> "JSONDecodeError"]

ListModels(answers) ==
    /\ Len(modelsLog) < MaxGets
    /\ \E r \in answers :
         modelsLog' = Append(modelsLog,
             [ url |-> api_base \o "/models",
               status_code |-> r.status_code,
               body |-> r.text,
               outcome |-> response_json(r) ])
    /\ UNCHANGED << clientVars, callVars, clockVars, fmtVars >>

\* requests.get itself raises
ListModelsFails ==
    /\ Len(modelsLog) < MaxGets
    /\ modelsLog' = Append(modelsLog,
             [ url |-> api_base \o "/models",
               status_code |-> 0,
               body |-> "",
               outcome |-> [kind |-> "raise", exc |-> "ConnectionError"] ])
    /\ UNCHANGED << clientVars, callVars, clockVars, fmtVars >>

(***************************************************************************)
(* The formatter applied to an input                                       *)
(***************************************************************************)
Format ==
    /\ fmtResult = NotRun
    /\ fmtResult' = [kind |-> "return", value |-> _format_phi_messages(fmtMessages)]
    /\ UNCHANGED << clientVars, callVars, clockVars, modelsLog, fmtMessages >>

(***************************************************************************)
(* Specifications                                                          *)
(***************************************************************************)
SingleCall == {1}

\* one chat_stream call against every enumerated response
Next ==
    \E c \in SingleCall :
        \/ ChatStream(c, StreamMessageLists)
        \/ Post(c, StreamAnswers)
        \/ PostFails(c)
        \/ NextLine(c)
        \/ EndOfLines(c)
        \/ IterLinesFails(c)
        \/ Resume(c)
        \/ Close(c)

Spec == Init /\ [][Next]_vars

\* one chat_stream call under a moving wall clock
NextClock ==
    \/ Tick
    \/ SetClockBack
    \/ \E c \in SingleCall :
           \/ ChatStream(c, {DemoMessages})
           \/ Post(c, ClockAnswers)
           \/ NextLine(c)
           \/ EndOfLines(c)
           \/ Resume(c)
           \/ Close(c)

SpecClock == Init /\ [][NextClock]_vars

\* several chat_stream calls and list_models on one client, interleaved
NextConc ==
    \/ /\ modelsLog = << >>
       /\ ListModels(ConcModelAnswers)
    \/ \E c \in Calls :
           \/ ChatStream(c, {DemoMessages})
           \/ Post(c, ConcAnswers)
           \/ NextLine(c)
           \/ EndOfLines(c)
           \/ Resume(c)
           \/ Close(c)

SpecConc == Init /\ [][NextConc]_vars

\* list_models against every enumerated answer
NextModels ==
    \/ ListModels(ModelAnswers)
    \/ ListModelsFails

SpecModels == Init /\ [][NextModels]_vars

\* the formatter on every enumerated message list
InitFormat ==
    /\ InitClient
    /\ fmtMessages \in FormatterInputs
    /\ fmtResult = NotRun

NextFormat == Format

SpecFormat == InitFormat /\ [][NextFormat]_vars


(***************************************************************************)
(* Vocabulary of the properties                                            *)
(***************************************************************************)
\* The line's payload is a JSON object carrying a non-empty choices[0].text
IsEventLine(line) ==
    /\ line # ""
    /\ LET d == json_loads(strip_data_prefix(line)) IN
       /\ d.ok
       /\ d.value.t = "dict"
       /\ "choices" \in DOMAIN d.value.fields
       /\ LET ch == d.value.fields["choices"] IN
          /\ ch.t = "list"
          /\ Len(ch.items) > 0
          /\ ch.items[1].t = "dict"
          /\ "text" \in DOMAIN ch.items[1].fields
          /\ ch.items[1].fields["text"].t = "str"
          /\ ch.items[1].fields["text"].s # ""

\* its choices[0].text
EventText(line) ==
    json_loads(strip_data_prefix(line)).value.fields["choices"].items[1].fields["text"]

\* The line's payload is the literal [DONE]
IsDoneLine(line) ==
    line = "[DONE]" \/ line = "data: [DONE]"

\* The texts of the event lines of a response, in arrival order
RECURSIVE ValidTexts(_)
ValidTexts(ls) ==
    IF ls = << >> THEN << >>
    ELSE (IF IsEventLine(Head(ls)) THEN << EventText(Head(ls)) >> ELSE << >>)
             \o ValidTexts(Tail(ls))

\* The fragments of a sequence of events
Fragments(evs) == [i \in 1 .. Len(evs) |-> evs[i].content]

\* What one call alone yields against a response: the loop run to its end
RECURSIVE RunAlone(_)
RunAlone(ls) ==
    IF ls = << >> THEN << >>
    ELSE LET out == process_line(Head(ls)) IN
         CASE out.kind = "skip" -> RunAlone(Tail(ls))
           [] out.kind = "yield" -> << out.content >> \o RunAlone(Tail(ls))
           [] out.kind = "raise" -> << >>

IsPrefix(a, b) == Len(a) <= Len(b) /\ SubSeq(b, 1, Len(a)) = a

\* The call has ended on its own account with the whole response behind it
\* or with an exception from the handling of a line
EndedOnResponse(c) ==
    \/ pc[c] = "exhausted"
    \/ /\ pc[c] = "failed"
       /\ response[c].status_code = 200
       /\ error[c].type # "ChunkedEncodingError"

(***************************************************************************)
(* C1: with a 200 response no exception from the handling of a line ever   *)
(* reaches the consumer (a line that is not an event line is skipped), and *)
(* a call that ended has handled every line of its response.               *)
(* Violated: a payload that is JSON but not an object ("data: 42") raises  *)
(* AttributeError at chunk.get.                                            *)
(***************************************************************************)
C1_BadLineNeverRaises ==
    \A c \in Calls :
        response[c].status_code = 200 =>
            /\ error[c].type \in {"none", "ChunkedEncodingError"}
            /\ EndedOnResponse(c) => pos[c] = Len(response[c].lines)

(***************************************************************************)
(* C2: a non-200 answer makes the first next() fail with an error whose    *)
(* message contains the raw body; nothing was yielded, no line was read,   *)
(* and exactly one POST was issued by the call.                            *)
(***************************************************************************)
C2_Non200FailsFast ==
    \A c \in Calls :
        (response[c] # NoResponse /\ response[c].status_code # 200) =>
            /\ pc[c] = "failed"
            /\ error[c].type = "Exception"
            /\ Contains(error[c].message, response[c].text)
            /\ events[c] = << >>
            /\ pos[c] = 0
            /\ Len(request[c]) = 1

C2_Witness ==
    \E c \in Calls :
        /\ response[c].status_code = 404
        /\ response[c].text = "model not found"
        /\ pc[c] = "failed"
        /\ error[c].message = "Error: model not found"

(***************************************************************************)
(* C3: for a 200 response, once the call has ended, the fragments yielded  *)
(* are exactly the choices[0].text of the event lines of the response, in  *)
(* arrival order.                                                          *)
(* Violated: after a line that raises (see C1) the later event lines are   *)
(* lost.                                                                   *)
(***************************************************************************)
C3_FragmentsAreTheEventTexts ==
    \A c \in Calls :
        EndedOnResponse(c) =>
            Fragments(events[c]) = ValidTexts(response[c].lines)

C5_DoneIsOnlySkipped ==
    [][ \A c \in Calls :
          LET ls == response[c].lines
              handled == (pc[c] = "running" /\ pos'[c] = pos[c] + 1) IN
          /\ (handled /\ IsDoneLine(ls[pos'[c]])) =>
                 /\ events'[c] = events[c]
                 /\ pc'[c] = "running"
                 /\ conn'[c] = "open"
          /\ ( /\ handled
               /\ IsEventLine(ls[pos'[c]])
               /\ \E i \in 1 .. pos[c] : IsDoneLine(ls[i]) ) =>
                 /\ Fragments(events'[c]) =
                        Append(Fragments(events[c]), EventText(ls[pos'[c]]))
                 /\ pc'[c] = "suspended"
          /\ (pc[c] # "exhausted" /\ pc'[c] = "exhausted") =>
                 pos[c] = Len(ls)
      ]_vars

\* an event was yielded from a line behind a [DONE] line
C5_Witness ==
    \E c \in Calls :
        /\ pos[c] = 2
        /\ IsDoneLine(response[c].lines[1])
        /\ IsEventLine(response[c].lines[2])
        /\ Len(events[c]) = 1
        /\ pc[c] = "suspended"

(***************************************************************************)
(* C6 as stated: every event's elapsed time is non-negative and the        *)
(* elapsed times of successive events are strictly increasing.             *)
(* Violated: two events yielded at the same clock reading carry equal      *)
(* elapsed times.                                                          *)
(***************************************************************************)
C6_StrictlyIncreasing ==
    \A c \in Calls :
        /\ \A i \in 1 .. Len(events[c]) : events[c][i].current_time >= 0
        /\ \A i \in 1 .. (Len(events[c]) - 1) :
               events[c][i].current_time < events[c][i + 1].current_time

(***************************************************************************)
(* C6 amended: as long as the wall clock has not been set back, every      *)
(* event's elapsed time is non-negative and the elapsed times of           *)
(* successive events never decrease (they may be equal).                   *)
(***************************************************************************)
C6_NonDecreasingUnlessSetBack ==
    ~clockSetBack =>
        \A c \in Calls :
            /\ \A i \in 1 .. Len(events[c]) : events[c][i].current_time >= 0
            /\ \A i \in 1 .. (Len(events[c]) - 1) :
                   events[c][i].current_time <= events[c][i + 1].current_time

\* two events, the clock advanced before the first and between the two
C6_Witness ==
    \E c \in Calls :
        /\ ~clockSetBack
        /\ Len(events[c]) = 2
        /\ events[c][1].current_time > 0
        /\ events[c][1].current_time < events[c][2].current_time

(***************************************************************************)
(* C7: the formatter returns the block of the first system message (if     *)
(* any) followed by the block of the last user message (if any); nothing   *)
(* else contributes, the assistant marker is absent without a user         *)
(* message, and the empty list gives the empty string.                     *)
(***************************************************************************)
SystemIdx(msgs) == { i \in 1 .. Len(msgs) : msgs[i].role = "system" }
UserIdx(msgs) == { i \in 1 .. Len(msgs) : msgs[i].role = "user" }
MinOf(S) == CHOOSE x \in S : \A y \in S : x <= y
MaxOf(S) == CHOOSE x \in S : \A y \in S : x >= y

ExpectedPrompt(msgs) ==
    (IF SystemIdx(msgs) = {} THEN ""
     ELSE "<|system|>" \o msgs[MinOf(SystemIdx(msgs))].content \o "<|end|>")
    \o
    (IF UserIdx(msgs) = {} THEN ""
     ELSE "<|user|>" \o msgs[MaxOf(UserIdx(msgs))].content
              \o "<|end|><|assistant|>")

C7_FormatterOutput ==
    fmtResult # NotRun =>
        /\ fmtResult.kind = "return"
        /\ fmtResult.value = ExpectedPrompt(fmtMessages)
        /\ UserIdx(fmtMessages) = {} =>
               ~Contains(fmtResult.value, "<|assistant|>")
        /\ fmtMessages = << >> => fmtResult.value = ""

\* user before system, an assistant message in between
C7_Witness ==
    /\ fmtResult # NotRun
    /\ fmtMessages = << Msg("user", "A"), Msg("assistant", "B"),
                        Msg("system", "B") >>
    /\ fmtResult.value = "<|system|>B<|end|><|user|>A<|end|><|assistant|>"

(***************************************************************************)
(* C8 as stated: with several system messages the <|system|> block holds   *)
(* the content of the last one.                                            *)
(* Violated: the block holds the content of the first one.                 *)
(***************************************************************************)
C8_LastSystemUsed ==
    (fmtResult # NotRun /\ Cardinality(SystemIdx(fmtMessages)) >= 2) =>
        startswith(fmtResult.value,
            "<|system|>" \o fmtMessages[MaxOf(SystemIdx(fmtMessages))].content
                \o "<|end|>")

(***************************************************************************)
(* C8 amended: with several system messages the <|system|> block holds the *)
(* content of the first one, and every later system message is ignored.    *)
(***************************************************************************)
C8_FirstSystemUsed ==
    (fmtResult # NotRun /\ Cardinality(SystemIdx(fmtMessages)) >= 2) =>
        /\ startswith(fmtResult.value,
               "<|system|>" \o fmtMessages[MinOf(SystemIdx(fmtMessages))].content
                   \o "<|end|>")
        /\ fmtResult.value =
               _format_phi_messages(
                   SelectSeq(fmtMessages, LAMBDA m : m.role # "system")
                   \o << fmtMessages[MinOf(SystemIdx(fmtMessages))] >>)

\* two system messages with different contents
C8_Witness ==
    /\ fmtResult # NotRun
    /\ fmtMessages = << Msg("system", "A"), Msg("user", "B"),
                        Msg("system", "B") >>
    /\ fmtResult.value = "<|system|>A<|end|><|user|>B<|end|><|assistant|>"

(***************************************************************************)
(* C9: list_models returns the decoded body when the answer is 200 with a  *)
(* well-formed body, and fails whenever the status is not 200 or the body  *)
(* is not JSON.                                                            *)
(* Violated: a 404 whose body is JSON is returned as the model list.       *)
(***************************************************************************)
C9_ListModelsFailsOnNon200 ==
    \A i \in 1 .. Len(modelsLog) :
        LET e == modelsLog[i]
            d == json_loads(e.body) IN
        /\ e.url = api_base \o "/models"
        /\ (e.status_code = 200 /\ d.ok) =>
               e.outcome = [kind |-> "return", value |-> d.value]
        /\ (e.status_code # 200 \/ ~d.ok) => e.outcome.kind = "raise"

(***************************************************************************)
(* C10: calls on one client pulled in any interleaving do not interfere:   *)
(* no step changes api_base or headers, a step changes the state of at     *)
(* most one call, and each call has yielded what a lone call yields from   *)
(* the lines handed over so far, and once ended exactly the fragments a    *)
(* lone call yields against its response.                                  *)
(***************************************************************************)
CallState(c) ==
    << pc[c], messages[c], request[c], response[c], conn[c], pos[c],
       events[c], error[c], start_time[c] >>

C10_AsIfAlone ==
    \A c \in Calls :
        /\ Fragments(events[c]) =
               RunAlone(SubSeq(response[c].lines, 1, pos[c]))
        /\ pc[c] \in {"exhausted", "failed"} =>
               Fragments(events[c]) = RunAlone(response[c].lines)

====
